---- MODULE Spec2Model ----
(***************************************************************************)
(* A model of src/app.py, the Streamlit exoplanet dashboard.               *)
(*                                                                         *)
(* The script is re-executed from its first line on every user            *)
(* interaction.  One execution: load_data() (memoised by @st.cache_data),  *)
(* the sidebar widgets, the filter, the KPI metrics and the chart tables.  *)
(*                                                                         *)
(* Numbers are fixed point, in hundredths: the radius 1.25 is 125, the     *)
(* temperature 199.9 is 19990.  A raw CSV cell of a numeric column is a    *)
(* record [k, v]: k = "num" (a numeric literal of value v), "text" (a      *)
(* string no number can be parsed from) or "empty" (an empty field).       *)
(* After reading and coercion a cell is Num(v) or NaN.  A string column    *)
(* holds strings; the empty string is the empty field, which pandas reads  *)
(* as NaN.                                                                 *)
(*                                                                         *)
(* Line 208 of src/app.py reads x="mass_earth implying y="radius_earth",   *)
(* which is no Python; it is read here as the two keyword arguments        *)
(* x="mass_earth", y="radius_earth" of st.scatter_chart, a rendering call  *)
(* that changes nothing the model holds.  The widgets are Streamlit's: a   *)
(* slider returns a pair within its two ends, a multiselect a subset of    *)
(* its options, and both keep their value from one run to the next.        *)
(***************************************************************************)
EXTENDS Integers, Sequences, FiniteSets, TLC

VARIABLES
    disk,      \* exoplanets.csv as it is on disk: [cols, rows]
    version,   \* how many times the file on disk was modified
    cache,     \* st.cache_data's entry for load_data(): [hit, df, version]
    nloads,    \* how many times the body of load_data ran to completion
    nreads,    \* how many times pd.read_csv ran
    view       \* what the last execution of the script produced; its field
               \* seen records the version of the file on disk at that time

vars == <<disk, version, cache, nloads, nreads, view>>

----------------------------------------------------------------------------
(* Cells *)

Num(n) == [k |-> "num", v |-> n]
Text == [k |-> "text", v |-> 0]
Empty == [k |-> "empty", v |-> 0]
NaN == [k |-> "nan", v |-> 0]
NaStr == ""

\* pd.isna on a coerced numeric cell / on a string cell
IsNa(x) == x.k = "nan"
IsNaStr(s) == s = NaStr

----------------------------------------------------------------------------
(* Columns *)

RawCols ==
    {"pl_name", "hostname", "discoverymethod", "disc_year", "pl_orbper",
     "pl_orbsmax", "pl_rade", "pl_bmasse", "pl_orbeccen", "pl_insol",
     "pl_eqt", "st_teff", "st_rad", "st_mass", "st_met", "sy_dist"}

StrRawCols == {"pl_name", "hostname", "discoverymethod"}

\* the mapping of df.rename(columns={...}); a name it does not list is kept
RenameOf(c) ==
    CASE c = "pl_name" -> "planet"
      [] c = "hostname" -> "star"
      [] c = "discoverymethod" -> "method"
      [] c = "disc_year" -> "year"
      [] c = "pl_orbper" -> "orbital_period"
      [] c = "pl_orbsmax" -> "semi_major_axis"
      [] c = "pl_rade" -> "radius_earth"
      [] c = "pl_bmasse" -> "mass_earth"
      [] c = "pl_orbeccen" -> "eccentricity"
      [] c = "pl_insol" -> "insolation"
      [] c = "pl_eqt" -> "eq_temp"
      [] c = "st_teff" -> "star_temp"
      [] c = "st_rad" -> "star_radius"
      [] c = "st_mass" -> "star_mass"
      [] c = "st_met" -> "metallicity"
      [] c = "sy_dist" -> "distance_pc"
      [] OTHER -> c

\* num_cols, in the order the loop visits them
NumCols ==
    <<"orbital_period", "semi_major_axis", "radius_earth", "mass_earth",
      "eccentricity", "insolation", "eq_temp", "star_temp",
      "star_radius", "star_mass", "metallicity", "distance_pc">>

NumColSet == {NumCols[i] : i \in DOMAIN NumCols}

----------------------------------------------------------------------------
(* load_data *)

\* pd.read_csv: an empty field of a numeric-looking column is NaN, a numeric
\* literal is its value, anything else is kept as the string it is
ReadCell(c, x) ==
    IF c \in StrRawCols THEN x
    ELSE IF x.k = "empty" THEN NaN ELSE x

ReadCsv(file) ==
    [cols |-> file.cols,
     rows |-> [i \in DOMAIN file.rows |->
                 [c \in file.cols |-> ReadCell(c, file.rows[i][c])]]]

\* df.rename(columns=...): columns the frame lacks are skipped silently
Rename(df) ==
    LET from(n) == CHOOSE c \in df.cols : RenameOf(c) = n
        names == {RenameOf(c) : c \in df.cols}
    IN  [cols |-> names,
         rows |-> [i \in DOMAIN df.rows |->
                     [n \in names |-> df.rows[i][from(n)]]]]

\* pd.to_numeric(..., errors="coerce") on one cell
ToNumeric(x) == IF x.k = "num" THEN x ELSE NaN

\* the bucket edges compared with <= instead of <
size_bucket_le(r) ==
    IF IsNa(r) THEN "Unknown"
    ELSE IF r.v <= 125 THEN "Earth-size"
    ELSE IF r.v <= 200 THEN "Super-Earth"
    ELSE IF r.v <= 600 THEN "Neptune-like"
    ELSE "Gas Giant"

size_bucket(r) ==
    IF IsNa(r) THEN "Unknown"
    ELSE IF r.v < 125 THEN "Earth-size"
    ELSE IF r.v < 200 THEN "Super-Earth"
    ELSE IF r.v < 600 THEN "Neptune-like"
    ELSE "Gas Giant"

temp_bucket_le(t) ==
    IF IsNa(t) THEN "Unknown"
    ELSE IF t.v <= 20000 THEN "Cold"
    ELSE IF t.v <= 80000 THEN "Warm"
    ELSE "Hot"

temp_bucket(t) ==
    IF IsNa(t) THEN "Unknown"
    ELSE IF t.v < 20000 THEN "Cold"
    ELSE IF t.v < 80000 THEN "Warm"
    ELSE "Hot"

KeyError(c) == [type |-> "KeyError", arg |-> c]
ValueError == [type |-> "ValueError", arg |-> "cannot convert float NaN to integer"]
NoError == [type |-> "", arg |-> ""]

\* the columns of num_cols the renamed frame lacks; df[c] raises at the first
MissingNum(df) == {i \in DOMAIN NumCols : NumCols[i] \notin df.cols}

FirstMissingNum(df) ==
    NumCols[CHOOSE i \in MissingNum(df) : \A j \in MissingNum(df) : i <= j]

\* coercion followed by dropping the rows a cell of which failed to parse
CoerceDropping(df) ==
    LET kept == SelectSeq(df.rows, LAMBDA r :
                    \A c \in df.cols \cap NumColSet : r[c].k # "text")
    IN  [cols |-> df.cols,
         rows |-> [i \in DOMAIN kept |->
                     [c \in df.cols |->
                        IF c \in NumColSet
                        THEN (IF kept[i][c].k = "num" THEN kept[i][c] ELSE NaN)
                        ELSE kept[i][c]]]]

Coerce(df) ==
    [cols |-> df.cols,
     rows |-> [i \in DOMAIN df.rows |->
                 [c \in df.cols |->
                    IF c \in NumColSet THEN ToNumeric(df.rows[i][c])
                    ELSE df.rows[i][c]]]]

AddBuckets(df) ==
    [cols |-> df.cols \cup {"size_type", "temp_type"},
     rows |-> [i \in DOMAIN df.rows |->
                 [c \in df.cols \cup {"size_type", "temp_type"} |->
                    IF c = "size_type" THEN size_bucket(df.rows[i]["radius_earth"])
                    ELSE IF c = "temp_type" THEN temp_bucket(df.rows[i]["eq_temp"])
                    ELSE df.rows[i][c]]]]

EmptyFrame == [cols |-> {}, rows |-> <<>>]

\* load_data with df.rename(columns=..., errors="raise"): a column the mapping
\* names and the file lacks raises at the rename
load_data_strict(file) ==
    LET renamed == Rename(ReadCsv(file))
        absent == RawCols \ file.cols
    IN  IF absent # {}
        THEN [ok |-> FALSE, error |-> KeyError(CHOOSE c \in absent : TRUE),
              df |-> EmptyFrame]
        ELSE [ok |-> TRUE, error |-> NoError,
              df |-> AddBuckets(Coerce(renamed))]

\* the body of load_data: the frame it returns, or the exception it raises
load_data(file) ==
    LET renamed == Rename(ReadCsv(file))
    IN  IF MissingNum(renamed) # {}
        THEN [ok |-> FALSE, error |-> KeyError(FirstMissingNum(renamed)),
              df |-> EmptyFrame]
        ELSE [ok |-> TRUE, error |-> NoError,
              df |-> AddBuckets(Coerce(renamed))]

----------------------------------------------------------------------------
(* Helpers over sequences and sets *)

Range(s) == {s[i] : i \in DOMAIN s}

RECURSIVE SumSeq(_)
SumSeq(s) == IF s = <<>> THEN 0 ELSE Head(s) + SumSeq(Tail(s))

\* the number of positions of s that hold x
Count(s, x) == Cardinality({i \in DOMAIN s : s[i] = x})

\* the distinct elements of s, in the order they are first met
RECURSIVE Unique(_)
Unique(s) ==
    IF s = <<>> THEN <<>>
    ELSE LET init == Unique(SubSeq(s, 1, Len(s) - 1))
             last == s[Len(s)]
         IN  IF last \in Range(init) THEN init ELSE Append(init, last)

\* a finite set of integers as an ascending sequence
RECURSIVE Ascending(_)
Ascending(S) ==
    IF S = {} THEN <<>>
    ELSE LET m == CHOOSE x \in S : \A y \in S : x <= y
         IN  <<m>> \o Ascending(S \ {m})

\* a stable insertion sort of <<key, item>> pairs by their integer key
RECURSIVE InsertByKey(_, _)
InsertByKey(s, e) ==
    IF s = <<>> THEN <<e>>
    ELSE IF Head(s)[1] <= e[1]
         THEN <<Head(s)>> \o InsertByKey(Tail(s), e)
         ELSE <<e>> \o s

RECURSIVE SortByKey(_)
SortByKey(s) ==
    IF s = <<>> THEN <<>>
    ELSE InsertByKey(SortByKey(SubSeq(s, 1, Len(s) - 1)), s[Len(s)])

Items(pairs) == [i \in DOMAIN pairs |-> pairs[i][2]]

Column(rows, c) == [i \in DOMAIN rows |-> rows[i][c]]

----------------------------------------------------------------------------
(* The sidebar: the widgets' domains and their default values *)

\* Series.min() / Series.max() skip NaN
YearValues(df) ==
    {df.rows[i]["year"].v : i \in {j \in DOMAIN df.rows : ~IsNa(df.rows[j]["year"])}}

min_year(df) == CHOOSE y \in YearValues(df) : \A z \in YearValues(df) : y <= z
max_year(df) == CHOOSE y \in YearValues(df) : \A z \in YearValues(df) : z <= y

\* sorted(df["method"].dropna().unique()); the options are used as a set
MethodOptions(df) == {m \in Range(Column(df.rows, "method")) : ~IsNaStr(m)}
SizeOptions(df) == Range(Column(df.rows, "size_type"))
TempOptions(df) == Range(Column(df.rows, "temp_type"))

\* the value of each widget before the user touches it
DefaultPred(df) ==
    [year_range |-> <<min_year(df), max_year(df)>>,
     methods |-> MethodOptions(df),
     sizes |-> SizeOptions(df),
     temps |-> TempOptions(df)]

\* the values the widgets let the user reach
YearRanges(df) ==
    {<<a, b>> : a \in min_year(df)..max_year(df), b \in min_year(df)..max_year(df)}
    \cap {r \in (min_year(df)..max_year(df)) \X (min_year(df)..max_year(df)) : r[1] <= r[2]}

----------------------------------------------------------------------------
(* The filter *)

\* between(lo, hi, inclusive="left"): the upper end left out
BetweenLeft(y, lo, hi) == ~IsNa(y) /\ lo <= y.v /\ y.v < hi

\* Series.between(lo, hi): inclusive on both ends, False on NaN
Between(y, lo, hi) == ~IsNa(y) /\ lo <= y.v /\ y.v <= hi

\* Series.isin(values): a NaN matches only a NaN among the values
IsIn(x, values) == x \in values

Keep(row, p) ==
    /\ Between(row["year"], p.year_range[1], p.year_range[2])
    /\ IsIn(row["method"], p.methods)
    /\ IsIn(row["size_type"], p.sizes)
    /\ IsIn(row["temp_type"], p.temps)

\* the mask one position out of line with the rows
FilterShifted(rows, p) ==
    LET idx == Ascending({i \in DOMAIN rows : i < Len(rows) /\ Keep(rows[i + 1], p)})
    IN  [j \in DOMAIN idx |-> rows[idx[j]]]

\* df[mask]: the rows whose mask is True, in their order
Filter(rows, p) == SelectSeq(rows, LAMBDA r : Keep(r, p))

----------------------------------------------------------------------------
(* KPI metrics *)

\* Series.nunique(): NaN is not counted
NUnique(rows, c) == Cardinality({x \in Range(Column(rows, c)) : ~IsNaStr(x)})

\* round(x, 1) of the exact quotient s / n of hundredths, half to even;
\* the result is in hundredths again
RoundTenth(s, n) ==
    LET f == s \div (10 * n)
        r == s - f * (10 * n)
    IN  IF 2 * r < 10 * n THEN 10 * f
        ELSE IF 2 * r > 10 * n THEN 10 * (f + 1)
        ELSE IF f % 2 = 0 THEN 10 * f ELSE 10 * (f + 1)

\* the mean of nothing reported as 0
AvgDistanceZero(rows) ==
    LET known == SelectSeq(Column(rows, "distance_pc"), LAMBDA d : ~IsNa(d))
        vals == [i \in DOMAIN known |-> known[i].v]
    IN  IF known = <<>> THEN Num(0)
        ELSE Num(RoundTenth(SumSeq(vals), Len(vals)))

\* round(filtered["distance_pc"].mean(), 1): the mean skips NaN and is NaN
\* when nothing is left
AvgDistance(rows) ==
    LET known == SelectSeq(Column(rows, "distance_pc"), LAMBDA d : ~IsNa(d))
        vals == [i \in DOMAIN known |-> known[i].v]
    IN  IF known = <<>> THEN NaN
        ELSE Num(RoundTenth(SumSeq(vals), Len(vals)))

----------------------------------------------------------------------------
(* Chart tables *)

\* groupby("year", sort=False) and no sort_values: the years as first met
YearChartUnsorted(rows) ==
    LET ys == SelectSeq(Column(rows, "year"), LAMBDA y : ~IsNa(y))
        vals == [i \in DOMAIN ys |-> ys[i].v]
        keys == Unique(vals)
    IN  [i \in DOMAIN keys |-> [year |-> keys[i], count |-> Count(vals, keys[i])]]

\* filtered.groupby("year").size().reset_index(name="count").sort_values("year")
\* groupby drops NaN keys and orders the groups by key
YearChart(rows) ==
    LET ys == SelectSeq(Column(rows, "year"), LAMBDA y : ~IsNa(y))
        vals == [i \in DOMAIN ys |-> ys[i].v]
        keys == Ascending(Range(vals))
        grouped == [i \in DOMAIN keys |->
                      [year |-> keys[i], count |-> Count(vals, keys[i])]]
    IN  Items(SortByKey([i \in DOMAIN grouped |-> <<grouped[i].year, grouped[i]>>]))

\* Series.value_counts().reset_index(): NaN dropped, descending by count,
\* equal counts in the order the values are first met
ValueCounts(rows, c) ==
    LET xs == SelectSeq(Column(rows, c), LAMBDA x : ~IsNaStr(x))
        keys == Unique(xs)
        counted == [i \in DOMAIN keys |->
                      [value |-> keys[i], count |-> Count(xs, keys[i])]]
    IN  Items(SortByKey([i \in DOMAIN counted |-> <<0 - counted[i].count, counted[i]>>]))

\* filtered[["mass_earth", "radius_earth"]].dropna()
ScatterDf(rows) ==
    LET both == SelectSeq(rows, LAMBDA r :
                    ~IsNa(r["mass_earth"]) /\ ~IsNa(r["radius_earth"]))
    IN  [i \in DOMAIN both |->
           [mass_earth |-> both[i]["mass_earth"],
            radius_earth |-> both[i]["radius_earth"]]]

----------------------------------------------------------------------------
(* One execution of the script *)

NoPred == [year_range |-> <<0, 0>>, methods |-> {}, sizes |-> {}, temps |-> {}]

NoView ==
    [status |-> "none", error |-> NoError, line |-> 0, seen |-> 0, df |-> EmptyFrame,
     pred |-> NoPred, filtered |-> <<>>, total |-> 0, stars |-> 0,
     nmethods |-> 0, avg_distance |-> NaN, year_chart |-> <<>>,
     method_chart |-> <<>>, size_chart |-> <<>>, temp_chart |-> <<>>,
     scatter_df |-> <<>>]

\* the script stops at the line that raises; nothing below it is produced
Failed(err, line) == [NoView EXCEPT !.status = "error", !.error = err, !.line = line]

\* lines 130-204 for the frame df and the widgets' values p
Render(df, p) ==
    LET filtered == Filter(df.rows, p)
    IN  IF "star" \notin df.cols THEN Failed(KeyError("star"), 145)
        ELSE [status |-> "ok", error |-> NoError, line |-> 0, seen |-> 0, df |-> df,
              pred |-> p, filtered |-> filtered,
              total |-> Len(filtered),
              stars |-> NUnique(filtered, "star"),
              nmethods |-> NUnique(filtered, "method"),
              avg_distance |-> AvgDistance(filtered),
              year_chart |-> YearChart(filtered),
              method_chart |-> ValueCounts(filtered, "method"),
              size_chart |-> ValueCounts(filtered, "size_type"),
              temp_chart |-> ValueCounts(filtered, "temp_type"),
              scatter_df |-> ScatterDf(filtered)]

\* lines 102-204: the sidebar, then the rest.  A session that has not drawn
\* its widgets yet gets their defaults; afterwards they keep the user's values
Dashboard(df, fresh, p) ==
    IF "year" \notin df.cols THEN Failed(KeyError("year"), 102)
    ELSE IF YearValues(df) = {} THEN Failed(ValueError, 102)
    ELSE IF "method" \notin df.cols THEN Failed(KeyError("method"), 113)
    ELSE Render(df, IF fresh THEN DefaultPred(df) ELSE p)

NoCache == [hit |-> FALSE, df |-> EmptyFrame, version |-> 0]

\* a cache keyed on the file's modification: a changed file is loaded again
CachedLoadKeyed ==
    IF cache.hit /\ cache.version = version
    THEN [ok |-> TRUE, error |-> NoError, df |-> cache.df]
    ELSE load_data(disk)

\* load_data() through @st.cache_data: the key is the function and its (no)
\* arguments; a stored value is returned as it is, an exception is not stored
CachedLoad ==
    IF cache.hit THEN [ok |-> TRUE, error |-> NoError, df |-> cache.df]
    ELSE load_data(disk)

CacheAfter(res) ==
    IF ~cache.hit /\ res.ok
    THEN [hit |-> TRUE, df |-> res.df, version |-> version]
    ELSE cache

MaxReads == 2

RunScript(fresh, p) ==
    LET res == CachedLoad
    IN  /\ cache.hit \/ nreads < MaxReads
        /\ cache' = CacheAfter(res)
        /\ nreads' = IF cache.hit THEN nreads ELSE nreads + 1
        /\ nloads' = IF ~cache.hit /\ res.ok THEN nloads + 1 ELSE nloads
        /\ view' = [(IF res.ok THEN Dashboard(res.df, fresh, p)
                      ELSE Failed(res.error, 97)) EXCEPT !.seen = version]
        /\ UNCHANGED <<disk, version>>

----------------------------------------------------------------------------
(* Actions *)

\* a session opens the page (or reloads it): every widget has its default
FirstRun == RunScript(TRUE, NoPred)

\* the script runs again with the widgets as they are
Rerun == view.status = "ok" /\ RunScript(FALSE, view.pred)

\* the user moves one widget, which runs the script again
SetYearRange ==
    /\ view.status = "ok"
    /\ \E r \in YearRanges(view.df) :
          /\ r # view.pred.year_range
          /\ RunScript(FALSE, [view.pred EXCEPT !.year_range = r])

SetMethods ==
    /\ view.status = "ok"
    /\ \E ms \in SUBSET MethodOptions(view.df) :
          /\ ms # view.pred.methods
          /\ RunScript(FALSE, [view.pred EXCEPT !.methods = ms])

SetSizes ==
    /\ view.status = "ok"
    /\ \E ss \in SUBSET SizeOptions(view.df) :
          /\ ss # view.pred.sizes
          /\ RunScript(FALSE, [view.pred EXCEPT !.sizes = ss])

SetTemps ==
    /\ view.status = "ok"
    /\ \E ts \in SUBSET TempOptions(view.df) :
          /\ ts # view.pred.temps
          /\ RunScript(FALSE, [view.pred EXCEPT !.temps = ts])

----------------------------------------------------------------------------
(* The files the specifications start from *)

MkRow(planet, star, method, year, orbper, radius, mass, temp, dist) ==
    [c \in RawCols |->
        CASE c = "pl_name" -> planet
          [] c = "hostname" -> star
          [] c = "discoverymethod" -> method
          [] c = "disc_year" -> year
          [] c = "pl_orbper" -> orbper
          [] c = "pl_rade" -> radius
          [] c = "pl_bmasse" -> mass
          [] c = "pl_eqt" -> temp
          [] c = "sy_dist" -> dist
          [] OTHER -> Num(100)]

\* rows that differ in every field the filter, the metrics and the charts read
FilterRows ==
    {MkRow("b1", "S1", "Transit", Num(2019), Num(36500), Num(100), Num(100), Num(25000), Num(1000)),
     MkRow("b2", "S1", "Transit", Num(2020), Num(36500), Text, Num(500), Num(25000), Num(2050)),
     MkRow("b3", "S2", "Radial Velocity", Num(2020), Num(36500), Num(100), Empty, Empty, Empty),
     MkRow("b4", "S2", NaStr, Num(2021), Num(36500), Num(1100), Num(30000), Num(90000), Num(1000)),
     MkRow("b5", "S2", "Transit", Empty, Text, Num(100), Text, Num(25000), Text)}

MaxRows == 2

SeqsUpTo(S, n) == UNION {[1..k -> S] : k \in 0..n}

FilterFiles == {[cols |-> RawCols, rows |-> rs] : rs \in SeqsUpTo(FilterRows, MaxRows)}

InitWith(files) ==
    /\ disk \in files
    /\ version = 0
    /\ cache = NoCache
    /\ nloads = 0
    /\ nreads = 0
    /\ view = NoView

InitFilter == InitWith(FilterFiles)

NextFilter ==
    \/ FirstRun
    \/ Rerun
    \/ SetYearRange
    \/ SetMethods
    \/ SetSizes
    \/ SetTemps

SpecFilter == InitFilter /\ [][NextFilter]_vars

\* rows whose radius and temperature cells sit on and around every bucket edge
RadiusCells ==
    {Num(100), Num(124), Num(125), Num(199), Num(200), Num(599), Num(600),
     Num(1100), Text, Empty}

TempCells == {Num(19990), Num(20000), Num(79990), Num(80000), Text, Empty}

LoadRows ==
    {MkRow("b1", "S1", "Transit", Num(2020), o, r, Num(100), t, d) :
        o \in {Num(36500), Text}, r \in RadiusCells, t \in TempCells,
        d \in {Num(1000), Text}}

MaxLoadRows == 1

LoadFiles == {[cols |-> RawCols, rows |-> rs] : rs \in SeqsUpTo(LoadRows, MaxLoadRows)}

InitLoad == InitWith(LoadFiles)

NextLoad == FirstRun

SpecLoad == InitLoad /\ [][NextLoad]_vars

\* files that lack columns, and contents to tell versions apart
MissingSets ==
    {{}} \cup {{c} : c \in RawCols}
    \cup {{"pl_rade", "pl_orbper"}, {"pl_name", "sy_dist"}, {"hostname", "disc_year"}}

Contents ==
    {<<>>,
     <<MkRow("b1", "S1", "Transit", Num(2019), Num(36500), Num(100), Num(100), Num(25000), Num(1000))>>,
     <<MkRow("b1", "S1", "Transit", Num(2019), Num(36500), Num(100), Num(100), Num(25000), Num(1000)),
       MkRow("b2", "S2", "Transit", Num(2020), Text, Num(110), Num(500), Num(26000), Empty)>>}

Restrict(rows, cols) == [i \in DOMAIN rows |-> [c \in cols |-> rows[i][c]]]

SourceFiles ==
    {[cols |-> RawCols \ m, rows |-> Restrict(rs, RawCols \ m)] :
        m \in MissingSets, rs \in Contents}

MaxEdits == 1

\* exoplanets.csv is replaced on disk while the application runs
ModifySource ==
    /\ version < MaxEdits
    /\ \E f \in SourceFiles :
          /\ f # disk
          /\ disk' = f
    /\ version' = version + 1
    /\ UNCHANGED <<cache, nloads, nreads, view>>

Init == InitWith(SourceFiles)

Next ==
    \/ FirstRun
    \/ Rerun
    \/ SetYearRange
    \/ SetMethods
    \/ SetSizes
    \/ SetTemps
    \/ ModifySource

Spec == Init /\ [][Next]_vars

----------------------------------------------------------------------------
(* Properties of the filter, stated of SpecFilter *)

\* the inclusion rule as the specification words it
Included(row, p) ==
    /\ row["year"].k = "num"
    /\ p.year_range[1] <= row["year"].v
    /\ row["year"].v <= p.year_range[2]
    /\ row["method"] \in p.methods
    /\ row["size_type"] \in p.sizes
    /\ row["temp_type"] \in p.temps

\* C1: a record is in the filtered view if and only if its year lies in
\* year_range (both ends included), its method is in methods, its size_type in
\* sizes and its temp_type in temps: every matching row of the dataset is in
\* the view as often as it is in the dataset, and no other row is.
C1_RowInclusion ==
    view.status = "ok" =>
        /\ Range(view.filtered) \subseteq Range(view.df.rows)
        /\ \A r \in Range(view.df.rows) :
              Count(view.filtered, r) =
                  IF Included(r, view.pred) THEN Count(view.df.rows, r) ELSE 0

\* a view that keeps a row whose year is the upper end of the range and drops
\* a row for its year alone
C1_Witness ==
    /\ view.status = "ok"
    /\ \E r \in Range(view.filtered) : r["year"].v = view.pred.year_range[2]
    /\ \E r \in Range(view.df.rows) :
          /\ r \notin Range(view.filtered)
          /\ r["year"].k = "num"
          /\ r["year"].v > view.pred.year_range[2]
          /\ r["method"] \in view.pred.methods
          /\ r["size_type"] \in view.pred.sizes
          /\ r["temp_type"] \in view.pred.temps

\* C2: with every widget at its default (the full observed year range, every
\* observed method, size and temperature class) the filtered view has as many
\* rows as the normalized dataset, records with a null method included.
C2_DefaultKeepsAll ==
    (view.status = "ok" /\ view.pred = DefaultPred(view.df)) =>
        view.total = Len(view.df.rows)

\* C8: when the widgets exclude every row of a non-empty dataset the script
\* still runs to its end, and the view has row count 0, 0 distinct stars, 0
\* distinct methods, a NaN mean distance, empty year, method, size and
\* temperature tables and no mass/radius pair.
C8_EmptyView ==
    /\ [](view.status = "ok" =>
            ((view.df.rows # <<>> /\ \A r \in Range(view.df.rows) : ~Included(r, view.pred))
             => /\ view.total = 0
                /\ view.stars = 0
                /\ view.nmethods = 0
                /\ view.avg_distance = NaN
                /\ view.year_chart = <<>>
                /\ view.method_chart = <<>>
                /\ view.size_chart = <<>>
                /\ view.temp_chart = <<>>
                /\ view.scatter_df = <<>>))
    /\ [][view.status = "ok" => view'.status = "ok"]_vars

C8_Witness ==
    /\ view.status = "ok"
    /\ view.df.rows # <<>>
    /\ \E r \in Range(view.df.rows) : r["distance_pc"].k = "num"
    /\ view.pred.methods # {}
    /\ view.filtered = <<>>

\* C9: filtering is idempotent: the filter applied, with the same widget
\* values, to the rows of the filtered view returns those rows again, and so
\* the same metrics and tables.
C9_Idempotent ==
    view.status = "ok" =>
        /\ Filter(view.filtered, view.pred) = view.filtered
        /\ Render([cols |-> view.df.cols, rows |-> view.filtered], view.pred).year_chart
               = view.year_chart
        /\ Render([cols |-> view.df.cols, rows |-> view.filtered], view.pred).total
               = view.total

\* a view that keeps one row of the dataset and drops another
C9_Witness ==
    /\ view.status = "ok"
    /\ view.pred # DefaultPred(view.df)
    /\ Len(view.filtered) >= 1
    /\ Len(view.filtered) < Len(view.df.rows)

\* C10: the year table has exactly one entry per distinct year among the
\* filtered rows, each entry counts the filtered rows of its year, the counts
\* add up to the filtered row count, and the years ascend strictly.
C10_YearChart ==
    view.status = "ok" =>
        LET yc == view.year_chart
            years == {view.filtered[i]["year"].v :
                         i \in {j \in DOMAIN view.filtered : view.filtered[j]["year"].k = "num"}}
        IN  /\ {yc[i].year : i \in DOMAIN yc} = years
            /\ Len(yc) = Cardinality(years)
            /\ \A i \in DOMAIN yc :
                  yc[i].count = Cardinality({j \in DOMAIN view.filtered :
                                    view.filtered[j]["year"] = Num(yc[i].year)})
            /\ SumSeq([i \in DOMAIN yc |-> yc[i].count]) = view.total
            /\ \A i \in DOMAIN yc : \A j \in DOMAIN yc : i < j => yc[i].year < yc[j].year

\* a view whose rows come with the later year first, and a year met twice
C10_Witness ==
    /\ view.status = "ok"
    /\ Len(view.year_chart) >= 2
    /\ Len(view.filtered) >= 2
    /\ view.filtered[1]["year"].v > view.filtered[2]["year"].v

----------------------------------------------------------------------------
(* Properties of load_data, stated of SpecLoad *)

\* C5: size_type is "Unknown" exactly when radius_earth is null, and otherwise
\* the bucket whose half-open range holds it: Earth-size below 1.25,
\* Super-Earth from 1.25 to below 2, Neptune-like from 2 to below 6, Gas Giant
\* from 6.
C5_SizeBuckets ==
    cache.hit =>
        \A i \in DOMAIN cache.df.rows :
            LET r == cache.df.rows[i]["radius_earth"]
                s == cache.df.rows[i]["size_type"]
            IN  /\ s = "Unknown" <=> r = NaN
                /\ r # NaN =>
                      /\ r.v < 125 => s = "Earth-size"
                      /\ (125 <= r.v /\ r.v < 200) => s = "Super-Earth"
                      /\ (200 <= r.v /\ r.v < 600) => s = "Neptune-like"
                      /\ 600 <= r.v => s = "Gas Giant"

C5_Witness ==
    /\ cache.hit
    /\ \E i \in DOMAIN cache.df.rows :
          /\ cache.df.rows[i]["radius_earth"] = Num(125)
          /\ cache.df.rows[i]["size_type"] = "Super-Earth"

\* C6: temp_type is "Unknown" exactly when eq_temp is null, and otherwise the
\* bucket whose half-open range holds it: Cold below 200, Warm from 200 to
\* below 800, Hot from 800.
C6_TempBuckets ==
    cache.hit =>
        \A i \in DOMAIN cache.df.rows :
            LET t == cache.df.rows[i]["eq_temp"]
                s == cache.df.rows[i]["temp_type"]
            IN  /\ s = "Unknown" <=> t = NaN
                /\ t # NaN =>
                      /\ t.v < 20000 => s = "Cold"
                      /\ (20000 <= t.v /\ t.v < 80000) => s = "Warm"
                      /\ 80000 <= t.v => s = "Hot"

C6_Witness ==
    /\ cache.hit
    /\ \E i \in DOMAIN cache.df.rows :
          /\ cache.df.rows[i]["eq_temp"] = Num(80000)
          /\ cache.df.rows[i]["temp_type"] = "Hot"

NumRawCols == RawCols \ (StrRawCols \cup {"disc_year"})

----------------------------------------------------------------------------
(* Properties of loading and caching, stated of Spec *)

Required == {RenameOf(c) : c \in RawCols}

\* the numeric columns the file on disk lacks, by the names num_cols gives them
AbsentNum == {i \in DOMAIN NumCols : NumCols[i] \notin {RenameOf(c) : c \in disk.cols}}

\* a step in which load_data's body ran: the file was read
LoadRan == nreads' = nreads + 1

\* C3 as stated: load never succeeds with a dataset that lacks one of the
\* sixteen required columns.
C3_AllOrNothing == cache.hit => Required \subseteq cache.df.cols

\* C3 as amended: a file that lacks one of the twelve numeric columns fails
\* the load with a KeyError naming, by its renamed name, the first lacking
\* column in num_cols order, and nothing is returned or cached; a file that
\* has the twelve succeeds, also when it lacks pl_name, hostname,
\* discoverymethod or disc_year, and the dataset returned then lacks them too.
C3_NumericAllOrNothing ==
    /\ [](cache.hit => NumColSet \subseteq cache.df.cols)
    /\ [][LoadRan =>
            IF AbsentNum # {}
            THEN /\ ~cache'.hit
                 /\ view'.status = "error"
                 /\ view'.line = 97
                 /\ view'.error.type = "KeyError"
                 /\ \E i \in AbsentNum :
                       /\ view'.error.arg = NumCols[i]
                       /\ \A j \in AbsentNum : i <= j
            ELSE /\ cache'.hit
                 /\ cache'.df.cols =
                       {RenameOf(c) : c \in disk.cols} \cup {"size_type", "temp_type"}
                 /\ Len(cache'.df.rows) = Len(disk.rows)]_vars

C3_Witness ==
    /\ "pl_rade" \notin disk.cols
    /\ "pl_orbper" \notin disk.cols
    /\ view.seen = version
    /\ view.status = "error"
    /\ view.error = KeyError("orbital_period")
    /\ ~cache.hit

\* C4 as stated: the table a load returns is that of the current version of
\* the source file.
C4_TracksSource ==
    (view.status = "ok" /\ view.seen = version /\ load_data(disk).ok)
        => view.df = load_data(disk).df

\* C4 as amended: the result is memoized under no key at all: once a load has
\* succeeded every later load returns that table without reading the file
\* again, whether or not the file was modified; the body of load_data
\* completes at most once, and the table is that of the current file as long
\* as the file has not been modified since that load.
C4_LoadedOnce ==
    /\ [](/\ nloads <= 1
          /\ cache.hit <=> nloads = 1
          /\ view.status = "ok" => (cache.hit /\ view.df = cache.df)
          /\ (cache.hit /\ cache.version = version) => cache.df = load_data(disk).df)
    /\ [][cache.hit => (cache' = cache /\ nreads' = nreads /\ nloads' = nloads)]_vars

\* a run of the script after the file was replaced shows the table loaded
\* before
C4_Witness ==
    /\ view.status = "ok"
    /\ view.seen = version
    /\ cache.version < version
    /\ view.df = cache.df
    /\ load_data(disk).ok
    /\ view.df # load_data(disk).df

====
